---- MODULE Spec2Model ----
(***************************************************************************)
(* A model of the unscented Kalman filter of src/src/ukf.cpp (class UKF).  *)
(*                                                                         *)
(* Numbers.  The filter computes on IEEE doubles.  A double is modelled as *)
(* a value record:                                                         *)
(*   [k |-> "num", v |-> a, r |-> b]  the exact real  a + b*sqrt(lambda_ + *)
(*                                    n_aug_) with integers a, b (the ring *)
(*                                    the sigma-point spread lives in);    *)
(*   [k |-> "nan", ...]               a NaN;                               *)
(*   [k |-> "sym", v |-> c, ...]      a finite real that the model does    *)
(*                                    not evaluate (a square root, a sine, *)
(*                                    a quotient that is not exact ...),   *)
(*                                    computed during call number c;       *)
(*   [k |-> "ctor", ...]              a constant the constructor stored;   *)
(*   [k |-> "unset", ...]             storage nothing has written yet.     *)
(* Arithmetic is exact on "num", propagates NaN as IEEE does, and yields a *)
(* fresh "sym" wherever the result is a real the ring does not hold.       *)
(* Lengths are counted on an integer grid (the doubles); single precision  *)
(* (float) is the coarser grid of the multiples of FloatUlp.  Matrices     *)
(* (P_, S_, Tc, K) are tokens that keep what the control and data flow     *)
(* depend on: who computed them, and whether they hold NaN.                *)
(***************************************************************************)
EXTENDS Integers, Sequences, FiniteSets, TLC

VARIABLES
  ukf,      \* the UKF object: its data members, plus the history field `calls`
  meas,     \* history: sensor type and timestamp of the last measurement processed
  pre,      \* history: the belief and bookkeeping as they were before the last call
  nCalls,   \* history: number of ProcessMeasurement calls so far
  nBoot,    \* history: number of calls that took the bootstrap branch
  first,    \* the raw values of a first LASER measurement (SpecLaser)
  ang,      \* an angle difference and its normalizations (SpecAngle)
  sig       \* an augmented mean, a square root and their sigma points (SpecSigma)

vars == <<ukf, meas, pre, nCalls, nBoot, first, ang, sig>>

(***************************************************************************)
(* Bounds of the model.                                                    *)
(***************************************************************************)
MaxCalls == 3     \* calls to ProcessMeasurement in one behaviour
MaxRaw == 1       \* raw lengths and speeds range over -MaxRaw..MaxRaw
MaxPhi == 1       \* raw bearings range over 0..MaxPhi
MaxTime == 1      \* timestamps range over 0..MaxTime seconds
MaxFirst == 5     \* the raw values of SpecLaser range over -MaxFirst..MaxFirst
MaxTurns == 3     \* angle differences reach MaxTurns*2*pi either way
MaxEps == 2       \* ... plus or minus MaxEps grid steps
MaxMean == 1      \* parameters of the augmented means of SpecSigma
MaxL == 2         \* parameters of the square-root matrices of SpecSigma

(***************************************************************************)
(* Program constants.                                                      *)
(***************************************************************************)
n_x_ == 5
n_aug_ == 7
lambda_ == 3 - n_x_
n_sigma_pts_ == 2 * n_aug_ + 1
MicrosPerSecond == 1000000
\* 0.001 on the length grid
MinMagnitude == 2
\* Single precision on the length grid: the magnitudes below MinMagnitude, and
\* from there on the multiples of FloatUlp.  0.001 is not a float, and the float
\* nearest to it lies above it.
FloatUlp == 3
\* M_PI on the angle grid
PI == 6

\* the radicand of the spread factor sqrt(lambda_ + n_aug_)
SpreadSq == lambda_ + n_aug_

(***************************************************************************)
(* Values.                                                                 *)
(***************************************************************************)
Num(n) == [k |-> "num", v |-> n, r |-> 0]
Irr(a, b) == [k |-> "num", v |-> a, r |-> b]
Zero == Num(0)
One == Num(1)
NaN == [k |-> "nan", v |-> 0, r |-> 0]
Unset == [k |-> "unset", v |-> 0, r |-> 0]
Ctor(i) == [k |-> "ctor", v |-> i, r |-> 0]
\* a finite real computed during the call in progress
FreshSym == [k |-> "sym", v |-> nCalls + 1, r |-> 0]

IsNum(a) == a.k = "num"
IsNaN(a) == a.k = "nan"
IsRational(a) == a.k = "num" /\ a.r = 0
Abs(n) == IF n < 0 THEN -n ELSE n

Neg(a) ==
  IF IsNaN(a) THEN NaN
  ELSE IF IsNum(a) THEN Irr(-a.v, -a.r)
  ELSE FreshSym

Add(a, b) ==
  IF IsNaN(a) \/ IsNaN(b) THEN NaN
  ELSE IF IsNum(a) /\ IsNum(b) THEN Irr(a.v + b.v, a.r + b.r)
  ELSE IF a = Zero THEN b
  ELSE IF b = Zero THEN a
  ELSE FreshSym

Sub(a, b) == Add(a, Neg(b))

Mul(a, b) ==
  IF IsNaN(a) \/ IsNaN(b) THEN NaN
  ELSE IF IsNum(a) /\ IsNum(b)
       THEN Irr(a.v * b.v + SpreadSq * a.r * b.r, a.v * b.r + a.r * b.v)
  ELSE IF a = Zero \/ b = Zero THEN Zero
  ELSE IF a = One THEN b
  ELSE IF b = One THEN a
  ELSE FreshSym

\* a / b.  0/0 is NaN.  x/0 with x # 0 is an infinity in IEEE; no division of
\* the filter reaches it (the numerator of r_dot vanishes with its divisor,
\* and v/yawd is guarded), so the model folds it into the non-finite NaN.
Div(a, b) ==
  IF IsNaN(a) \/ IsNaN(b) THEN NaN
  ELSE IF b = Zero THEN NaN
  ELSE IF b = One THEN a
  ELSE IF a = Zero THEN Zero
  ELSE IF IsNum(a) /\ IsRational(b) /\ a.v % Abs(b.v) = 0 /\ a.r % Abs(b.v) = 0
       THEN IF b.v > 0 THEN Irr(a.v \div b.v, a.r \div b.v)
            ELSE Irr((-a.v) \div (-b.v), (-a.r) \div (-b.v))
  ELSE FreshSym

Sqrt(a) ==
  IF IsNaN(a) THEN NaN
  ELSE IF IsRational(a)
       THEN IF a.v < 0 THEN NaN
            ELSE IF \E s \in 0..a.v : s * s = a.v
                 THEN Num(CHOOSE s \in 0..a.v : s * s = a.v)
                 ELSE FreshSym
  ELSE FreshSym

Cos(a) == IF IsNaN(a) THEN NaN ELSE IF a = Zero THEN One ELSE FreshSym
Sin(a) == IF IsNaN(a) THEN NaN ELSE IF a = Zero THEN Zero ELSE FreshSym

\* atan2(y, x): exact on the positive and negative x axis and at the origin
Atan2(y, x) ==
  IF IsNaN(y) \/ IsNaN(x) THEN NaN
  ELSE IF y = Zero /\ IsRational(x) THEN (IF x.v >= 0 THEN Zero ELSE Num(PI))
  ELSE FreshSym

RECURSIVE SumTo(_, _)
\* f[0] + ... + f[n-1], accumulated from 0.0 as the code's loops do
SumTo(f, n) == IF n = 0 THEN Zero ELSE Add(SumTo(f, n - 1), f[n - 1])

(***************************************************************************)
(* Conversions.                                                            *)
(***************************************************************************)
\* the float nearest to n: n itself below MinMagnitude, else the nearest
\* multiple of FloatUlp, ties to the even multiple
RoundFloat(n) ==
  LET q == n \div FloatUlp
      m == n % FloatUlp
  IN IF Abs(n) < MinMagnitude THEN n
     ELSE IF 2 * m < FloatUlp THEN q * FloatUlp
     ELSE IF 2 * m > FloatUlp THEN (q + 1) * FloatUlp
     ELSE IF q % 2 = 0 THEN q * FloatUlp ELSE (q + 1) * FloatUlp

\* double -> float (the `float` locals of ProcessMeasurement)
ToFloat(a) == IF IsRational(a) THEN Num(RoundFloat(a.v)) ELSE a

RECURSIVE WrapDown(_)
WrapDown(d) == IF d > PI THEN WrapDown(d - 2 * PI) ELSE d
RECURSIVE WrapUp(_)
WrapUp(d) == IF d < -PI THEN WrapUp(d + 2 * PI) ELSE d

\* the normalization without its second loop
NormalizeAngleFirstLoopOnly(d) == WrapDown(d)

\* while (d > M_PI) d -= 2.*M_PI;  while (d < -M_PI) d += 2.*M_PI;
NormalizeAngle(d) == WrapUp(WrapDown(d))

\* ... on a value: both comparisons are false on a NaN, and a finite real stays one
NormalizeAngleVal(a) == IF IsRational(a) THEN Num(NormalizeAngle(a.v)) ELSE a

(***************************************************************************)
(* Matrices: tokens.  k is "ctor" (the constructor's matrix), "sym" (a     *)
(* matrix of finite entries computed by `by` during call v) or "nan" (a    *)
(* matrix holding NaN).                                                    *)
(***************************************************************************)
MatCtor(name) == [k |-> "ctor", v |-> 0, by |-> name]
MatNaN == [k |-> "nan", v |-> 0, by |-> ""]
MatSym(by) == [k |-> "sym", v |-> nCalls + 1, by |-> by]
MatUnset == [k |-> "unset", v |-> 0, by |-> ""]
Mat(hasNaN, by) == IF hasNaN THEN MatNaN ELSE MatSym(by)

SensorTypes == {"LASER", "RADAR"}
Sigma == 0..(2 * n_aug_)

(***************************************************************************)
(* UKF::UKF                                                                *)
(***************************************************************************)
\* weights_ as fractions n/d:  weights_(0) = lambda_/(lambda_+n_aug_),
\* weights_(i) = 0.5/(n_aug_+lambda_) for i = 1 .. 2*n_aug_
weights_ ==
  [i \in Sigma |->
     IF i = 0 THEN [n |-> 2 * lambda_, d |-> 2 * (lambda_ + n_aug_)]
     ELSE [n |-> 1, d |-> 2 * (n_aug_ + lambda_)]]

\* the common denominator of the weights
WeightDen == 2 * (lambda_ + n_aug_)

\* is_initialized_ is declared in ukf.h, which is not among the sources, and the
\* constructor does not assign it: the filter starts not initialized.
is_initialized_0 == FALSE

\* The object the constructor leaves.  What it does not assign is "unset".
UKF ==
  [ use_laser_ |-> TRUE,
    use_radar_ |-> TRUE,
    is_initialized_ |-> is_initialized_0,
    previous_timestamp_ |-> -1,
    x_ |-> [j \in 0..(n_x_ - 1) |-> IF j < 2 THEN Zero ELSE Ctor(j)],
    P_ |-> MatCtor("P_"),
    x_aug_ |-> [j \in 0..(n_aug_ - 1) |-> Unset],
    P_aug_ |-> MatUnset,
    Xsig_aug_ |-> [i \in Sigma |-> [j \in 0..(n_aug_ - 1) |-> Unset]],
    Xsig_pred_ |-> [i \in Sigma |-> [j \in 0..(n_x_ - 1) |-> Unset]],
    n_z |-> 0,
    Zsig_ |-> [i \in Sigma |-> <<>>],
    z_pred_ |-> <<>>,
    S_ |-> MatUnset,
    NIS_lidar |-> Unset,
    NIS_radar |-> Unset,
    calls |-> <<>> ]

(***************************************************************************)
(* UKF::generateSigmaPoints                                                *)
(***************************************************************************)
\* P_aug_.llt().matrixL(): the lower-triangular Cholesky factor.  Eigen reports
\* a failure only through info(), which the code does not read.  Rows 5 and 6
\* of P_aug_ are zero off the diagonal, so are those of L.
llt(Paug) ==
  [j \in 0..(n_aug_ - 1) |-> [i \in 0..(n_aug_ - 1) |->
     IF j < i THEN Zero
     ELSE IF Paug.k = "nan" THEN NaN
     ELSE IF j = i THEN FreshSym
     ELSE IF j >= n_x_ THEN Zero
     ELSE IF Paug.k = "ctor" THEN Zero
     ELSE FreshSym]]

\* sqrt(lambda_ + n_aug_)
SpreadFactor == Irr(0, 1)

\* the sigma points with the second half on the same side as the first
SigmaPointsSameSide(x_aug, L) ==
  [c \in Sigma |-> [j \in 0..(n_aug_ - 1) |->
     IF c = 0 THEN x_aug[j]
     ELSE IF c <= n_aug_ THEN Add(x_aug[j], Mul(SpreadFactor, L[j][c - 1]))
     ELSE Add(x_aug[j], Mul(SpreadFactor, L[j][c - 1 - n_aug_]))]]

\* Xsig_aug_: column 0 the mean, columns i+1 and i+1+n_aug_ the mean plus and
\* minus sqrt(lambda_+n_aug_) * L.col(i)
SigmaPoints(x_aug, L) ==
  [c \in Sigma |-> [j \in 0..(n_aug_ - 1) |->
     IF c = 0 THEN x_aug[j]
     ELSE IF c <= n_aug_ THEN Add(x_aug[j], Mul(SpreadFactor, L[j][c - 1]))
     ELSE Sub(x_aug[j], Mul(SpreadFactor, L[j][c - 1 - n_aug_]))]]

generateSigmaPoints(u) ==
  [u EXCEPT !.Xsig_aug_ = SigmaPoints(u.x_aug_, llt(u.P_aug_))]

(***************************************************************************)
(* UKF::predictSigmaPoints                                                 *)
(***************************************************************************)
\* fabs(yawd) > 0.001: "yes", "no", or "open" for a real the model does not
\* evaluate.  One step of the angle grid is more than 0.001 rad.
AbsExceeds(yawd) ==
  IF IsNaN(yawd) THEN "no"
  ELSE IF IsNum(yawd) THEN (IF yawd = Zero THEN "no" ELSE "yes")
  ELSE "open"

\* the value of a conditional whose condition is "open"
Branch(c, a, b) ==
  IF c = "yes" THEN a
  ELSE IF c = "no" THEN b
  ELSE IF a = b THEN a
  ELSE IF IsNaN(a) /\ IsNaN(b) THEN NaN
  ELSE FreshSym

PredictPoint(p, delta_t) ==
  LET p_x == p[0]
      p_y == p[1]
      v == p[2]
      yaw == p[3]
      yawd == p[4]
      nu_a == p[5]
      nu_yawdd == p[6]
      turn == AbsExceeds(yawd)
      px_c == Add(p_x, Mul(Div(v, yawd),
                  Sub(Sin(Add(yaw, Mul(yawd, delta_t))), Sin(yaw))))
      py_c == Add(p_y, Mul(Div(v, yawd),
                  Sub(Cos(yaw), Cos(Add(yaw, Mul(yawd, delta_t))))))
      px_s == Add(p_x, Mul(Mul(v, delta_t), Cos(yaw)))
      py_s == Add(p_y, Mul(Mul(v, delta_t), Sin(yaw)))
      px_0 == Branch(turn, px_c, px_s)
      py_0 == Branch(turn, py_c, py_s)
      half_a == Div(Mul(Mul(nu_a, delta_t), delta_t), Num(2))
      half_y == Div(Mul(Mul(nu_yawdd, delta_t), delta_t), Num(2))
      px_p == Add(px_0, Mul(half_a, Cos(yaw)))
      py_p == Add(py_0, Mul(half_a, Sin(yaw)))
      v_p == Add(v, Mul(nu_a, delta_t))
      yaw_p == Add(Add(yaw, Mul(yawd, delta_t)), half_y)
      yawd_p == Add(yawd, Mul(nu_yawdd, delta_t))
  IN [j \in 0..(n_x_ - 1) |->
        IF j = 0 THEN px_p ELSE IF j = 1 THEN py_p ELSE IF j = 2 THEN v_p
        ELSE IF j = 3 THEN yaw_p ELSE yawd_p]

predictSigmaPoints(u, delta_t) ==
  [u EXCEPT !.Xsig_pred_ =
     [i \in Sigma |-> PredictPoint(u.Xsig_aug_[i], delta_t)]]

(***************************************************************************)
(* UKF::Prediction                                                         *)
(***************************************************************************)
\* sum over the sigma points of weights_(i) * f[i]
WeightedSum(f) ==
  Div(SumTo([i \in Sigma |-> Mul(Num(weights_[i].n), f[i])], n_sigma_pts_),
      Num(WeightDen))

\* Xsig_pred_.col(i) - x_, its heading component normalized
StateDiff(u, i) ==
  [j \in 0..(n_x_ - 1) |->
     LET d == Sub(u.Xsig_pred_[i][j], u.x_[j])
     IN IF j = 3 THEN NormalizeAngleVal(d) ELSE d]

Prediction(u, delta_t) ==
  LET u0 == [u EXCEPT !.calls = Append(@, [fn |-> "Prediction", delta_t |-> delta_t,
                                           previous_timestamp_ |-> u.previous_timestamp_]),
                      !.x_aug_ = [j \in 0..(n_aug_ - 1) |->
                                    IF j < n_x_ THEN u.x_[j] ELSE Zero],
                      !.P_aug_ = IF u.P_.k = "nan" THEN MatNaN
                                 ELSE [u.P_ EXCEPT !.by = "P_aug_"]]
      u1 == generateSigmaPoints(u0)
      u2 == predictSigmaPoints(u1, delta_t)
      u3 == [u2 EXCEPT !.x_ = [j \in 0..(n_x_ - 1) |->
                                 WeightedSum([i \in Sigma |-> u2.Xsig_pred_[i][j]])]]
  IN [u3 EXCEPT !.P_ = Mat(\E i \in Sigma : \E j \in 0..(n_x_ - 1) :
                             IsNaN(StateDiff(u3, i)[j]), "Prediction")]

(***************************************************************************)
(* UKF::predictMeasurment, UKF::UpdateMeasurment                           *)
(***************************************************************************)
\* Zsig_.col(i) - z_pred_, its component 1 normalized
MeasDiff(u, i) ==
  [m \in 0..(u.n_z - 1) |->
     LET d == Sub(u.Zsig_[i][m], u.z_pred_[m])
     IN IF m = 1 THEN NormalizeAngleVal(d) ELSE d]

predictMeasurment(u, R) ==
  LET u1 == [u EXCEPT !.z_pred_ = [m \in 0..(u.n_z - 1) |->
                                     WeightedSum([i \in Sigma |-> u.Zsig_[i][m]])]]
  IN [u1 EXCEPT !.S_ = Mat(\E i \in Sigma : \E m \in 0..(u.n_z - 1) :
                             IsNaN(MeasDiff(u1, i)[m]), "predictMeasurment")]

\* the correction with the two statistics exchanged
UpdateMeasurmentSlotsExchanged(u, meas_package) ==
  LET z == [m \in 0..(u.n_z - 1) |-> Num(meas_package.raw_measurements_[m])]
      \* Tc sums products of the residuals that S_ and the predicted P_ were
      \* summed from: it holds NaN exactly when one of these does
      Tc == Mat(u.S_.k = "nan" \/ u.P_.k = "nan", "Tc")
      \* K = Tc * S_.inverse(): the inverse of a matrix that holds NaN is all NaN;
      \* Eigen's inverse() signals nothing
      K == Mat(Tc.k = "nan" \/ u.S_.k = "nan", "K")
      z_diff == [m \in 0..(u.n_z - 1) |->
                   LET d == Sub(z[m], u.z_pred_[m])
                   IN IF m = 1 THEN NormalizeAngleVal(d) ELSE d]
      badz == \E m \in 0..(u.n_z - 1) : IsNaN(z_diff[m])
      nis == IF u.S_.k = "nan" \/ badz THEN NaN ELSE FreshSym
      u1 == [u EXCEPT !.x_ = [j \in 0..(n_x_ - 1) |->
                                IF K.k = "nan" \/ badz THEN NaN
                                ELSE Add(u.x_[j], FreshSym)],
                      !.P_ = Mat(u.P_.k = "nan" \/ K.k = "nan" \/ u.S_.k = "nan",
                                 "UpdateMeasurment")]
  IN IF meas_package.sensor_type_ = "LASER"
     THEN [u1 EXCEPT !.NIS_radar = nis,
                     !.calls = Append(@, [fn |-> "UpdateMeasurment", nis |-> "NIS_radar"])]
     ELSE [u1 EXCEPT !.NIS_lidar = nis,
                     !.calls = Append(@, [fn |-> "UpdateMeasurment", nis |-> "NIS_lidar"])]

UpdateMeasurment(u, meas_package) ==
  LET z == [m \in 0..(u.n_z - 1) |-> Num(meas_package.raw_measurements_[m])]
      \* Tc sums products of the residuals that S_ and the predicted P_ were
      \* summed from: it holds NaN exactly when one of these does
      Tc == Mat(u.S_.k = "nan" \/ u.P_.k = "nan", "Tc")
      \* K = Tc * S_.inverse(): the inverse of a matrix that holds NaN is all NaN;
      \* Eigen's inverse() signals nothing
      K == Mat(Tc.k = "nan" \/ u.S_.k = "nan", "K")
      z_diff == [m \in 0..(u.n_z - 1) |->
                   LET d == Sub(z[m], u.z_pred_[m])
                   IN IF m = 1 THEN NormalizeAngleVal(d) ELSE d]
      badz == \E m \in 0..(u.n_z - 1) : IsNaN(z_diff[m])
      nis == IF u.S_.k = "nan" \/ badz THEN NaN ELSE FreshSym
      u1 == [u EXCEPT !.x_ = [j \in 0..(n_x_ - 1) |->
                                IF K.k = "nan" \/ badz THEN NaN
                                ELSE Add(u.x_[j], FreshSym)],
                      !.P_ = Mat(u.P_.k = "nan" \/ K.k = "nan" \/ u.S_.k = "nan",
                                 "UpdateMeasurment")]
  IN IF meas_package.sensor_type_ = "LASER"
     THEN [u1 EXCEPT !.NIS_lidar = nis,
                     !.calls = Append(@, [fn |-> "UpdateMeasurment", nis |-> "NIS_lidar"])]
     ELSE [u1 EXCEPT !.NIS_radar = nis,
                     !.calls = Append(@, [fn |-> "UpdateMeasurment", nis |-> "NIS_radar"])]

(***************************************************************************)
(* UKF::UpdateLidar, UKF::UpdateRadar                                      *)
(***************************************************************************)
UpdateLidar(u, meas_package) ==
  LET u0 == [u EXCEPT !.calls = Append(@, [fn |-> "UpdateLidar"]),
                      !.n_z = 2,
                      !.Zsig_ = [i \in Sigma |->
                                         [m \in 0..1 |-> u.Xsig_pred_[i][m]]]]
  IN UpdateMeasurment(predictMeasurment(u0, MatCtor("R_lidar_")), meas_package)

\* the divisor of r_dot: sqrt(p_x*p_x + p_y*p_y)
RDotDivisor(p_x, p_y) == Sqrt(Add(Mul(p_x, p_x), Mul(p_y, p_y)))

RadarPoint(p) ==
  LET p_x == p[0]
      p_y == p[1]
      v == p[2]
      yaw == p[3]
      v1 == Mul(Cos(yaw), v)
      v2 == Mul(Sin(yaw), v)
  IN [m \in 0..2 |->
        IF m = 0 THEN Sqrt(Add(Mul(p_x, p_x), Mul(p_y, p_y)))
        ELSE IF m = 1 THEN Atan2(p_y, p_x)
        ELSE Div(Add(Mul(p_x, v1), Mul(p_y, v2)), RDotDivisor(p_x, p_y))]

UpdateRadar(u, meas_package) ==
  LET u0 == [u EXCEPT !.calls = Append(@, [fn |-> "UpdateRadar"]),
                      !.n_z = 3,
                      !.Zsig_ = [i \in Sigma |-> RadarPoint(u.Xsig_pred_[i])]]
  IN UpdateMeasurment(predictMeasurment(u0, MatCtor("R_radar_")), meas_package)

(***************************************************************************)
(* UKF::ProcessMeasurement                                                 *)
(***************************************************************************)
\* the first measurement: the state from a RADAR reading
InitRadar(raw) ==
  LET rho == ToFloat(Num(raw[0]))
      phi == ToFloat(Num(raw[1]))
      rhodot == ToFloat(Num(raw[2]))
      px == ToFloat(Mul(rho, Cos(phi)))
      py == ToFloat(Mul(rho, Sin(phi)))
      vx == ToFloat(Mul(rhodot, Cos(phi)))
      vy == ToFloat(Mul(rhodot, Sin(phi)))
      vel == ToFloat(Sqrt(ToFloat(Add(ToFloat(Mul(vx, vx)), ToFloat(Mul(vy, vy))))))
  IN [j \in 0..(n_x_ - 1) |->
        IF j = 0 THEN px ELSE IF j = 1 THEN py ELSE IF j = 2 THEN vel ELSE Zero]

\* if (fabs(p) < 0.001) p = 0.001;   p a float
ClampFloat(p) ==
  IF IsRational(p) /\ Abs(p.v) < MinMagnitude THEN ToFloat(Num(MinMagnitude)) ELSE p

\* the first measurement: the state from a LASER reading
InitLaser(raw) ==
  LET px == ClampFloat(ToFloat(Num(raw[0])))
      py == ClampFloat(ToFloat(Num(raw[1])))
  IN [j \in 0..(n_x_ - 1) |-> IF j = 0 THEN px ELSE IF j = 1 THEN py ELSE Zero]

\* (meas_package.timestamp_ - previous_timestamp_) / 1000000.0
ElapsedSeconds(u, meas_package) ==
  Div(Num(meas_package.timestamp_ - u.previous_timestamp_), Num(MicrosPerSecond))

\* the body that never marks the filter initialized
ProcessMeasurementNeverMarked(u, meas_package) ==
  IF ~u.is_initialized_
  THEN [u EXCEPT !.x_ = IF meas_package.sensor_type_ = "RADAR"
                        THEN InitRadar(meas_package.raw_measurements_)
                        ELSE InitLaser(meas_package.raw_measurements_),
                 !.previous_timestamp_ = meas_package.timestamp_]
  ELSE LET delta_t == ElapsedSeconds(u, meas_package)
           u1 == [u EXCEPT !.previous_timestamp_ = meas_package.timestamp_]
           u2 == Prediction(u1, delta_t)
       IN IF meas_package.sensor_type_ = "RADAR"
          THEN UpdateRadar(u2, meas_package)
          ELSE UpdateLidar(u2, meas_package)

\* the body that stores the timestamp before it computes the elapsed time
ProcessMeasurementStoresFirst(u, meas_package) ==
  IF ~u.is_initialized_
  THEN [u EXCEPT !.x_ = IF meas_package.sensor_type_ = "RADAR"
                        THEN InitRadar(meas_package.raw_measurements_)
                        ELSE InitLaser(meas_package.raw_measurements_),
                 !.previous_timestamp_ = meas_package.timestamp_,
                 !.is_initialized_ = TRUE]
  ELSE LET u1 == [u EXCEPT !.previous_timestamp_ = meas_package.timestamp_]
           delta_t == ElapsedSeconds(u1, meas_package)
           u2 == Prediction(u1, delta_t)
       IN IF meas_package.sensor_type_ = "RADAR"
          THEN UpdateRadar(u2, meas_package)
          ELSE UpdateLidar(u2, meas_package)

\* the body of ProcessMeasurement on the object u; `calls` lists what it invoked
ProcessMeasurementBody(u, meas_package) ==
  IF ~u.is_initialized_
  THEN [u EXCEPT !.x_ = IF meas_package.sensor_type_ = "RADAR"
                        THEN InitRadar(meas_package.raw_measurements_)
                        ELSE InitLaser(meas_package.raw_measurements_),
                 !.previous_timestamp_ = meas_package.timestamp_,
                 !.is_initialized_ = TRUE]
  ELSE LET delta_t == ElapsedSeconds(u, meas_package)
           u1 == [u EXCEPT !.previous_timestamp_ = meas_package.timestamp_]
           u2 == Prediction(u1, delta_t)
       IN IF meas_package.sensor_type_ = "RADAR"
          THEN UpdateRadar(u2, meas_package)
          ELSE UpdateLidar(u2, meas_package)

(***************************************************************************)
(* The measurements the caller hands over.                                 *)
(***************************************************************************)
Timestamps == {t * MicrosPerSecond : t \in 0..MaxTime}
RawLaser == [0..1 -> (-MaxRaw)..MaxRaw]
RawRadar == {[m \in 0..2 |-> IF m = 0 THEN rho ELSE IF m = 1 THEN phi ELSE rhodot] :
               rho \in 0..MaxRaw, phi \in 0..MaxPhi, rhodot \in (-MaxRaw)..MaxRaw}
Measurements ==
  [sensor_type_ : {"LASER"}, timestamp_ : Timestamps, raw_measurements_ : RawLaser]
  \cup
  [sensor_type_ : {"RADAR"}, timestamp_ : Timestamps, raw_measurements_ : RawRadar]

\* what `pre` keeps of the object
Belief(u) ==
  [x_ |-> u.x_, P_ |-> u.P_, NIS_lidar |-> u.NIS_lidar, NIS_radar |-> u.NIS_radar,
   previous_timestamp_ |-> u.previous_timestamp_, is_initialized_ |-> u.is_initialized_]

NoMeas == [sensor_type_ |-> "", timestamp_ |-> -1]
NoFirst == <<>>
NoAng == [d |-> 0, n1 |-> 0, n2 |-> 0, step |-> 2]
NoSig == [x_aug_ |-> <<>>, L |-> <<>>, Xsig_aug_ |-> <<>>, done |-> FALSE]

Init ==
  /\ ukf = UKF
  /\ meas = NoMeas
  /\ pre = Belief(UKF)
  /\ nCalls = 0
  /\ nBoot = 0
  /\ first = NoFirst
  /\ ang = NoAng
  /\ sig = NoSig

\* the caller switches one sensor off, once, before the first measurement (the
\* per-sensor enable flags of the configuration at construction)
Configure ==
  /\ nCalls = 0
  /\ ukf.use_laser_ /\ ukf.use_radar_
  /\ \E l, r \in BOOLEAN :
       /\ l # r
       /\ ukf' = [ukf EXCEPT !.use_laser_ = l, !.use_radar_ = r]
  /\ UNCHANGED <<meas, pre, nCalls, nBoot, first, ang, sig>>

ProcessMeasurement ==
  /\ nCalls < MaxCalls
  /\ \E meas_package \in Measurements :
       /\ ukf' = ProcessMeasurementBody([ukf EXCEPT !.calls = <<>>], meas_package)
       /\ meas' = [sensor_type_ |-> meas_package.sensor_type_,
                   timestamp_ |-> meas_package.timestamp_]
  /\ pre' = Belief(ukf)
  /\ nCalls' = nCalls + 1
  /\ nBoot' = IF ukf.is_initialized_ THEN nBoot ELSE nBoot + 1
  /\ UNCHANGED <<first, ang, sig>>

Next == Configure \/ ProcessMeasurement

Spec == Init /\ [][Next]_vars

(***************************************************************************)
(* SpecLaser: the first measurement, a LASER reading, on every pair of raw *)
(* values of -MaxFirst..MaxFirst.                                          *)
(***************************************************************************)
FirstRaws == [0..1 -> (-MaxFirst)..MaxFirst]

InitFirst ==
  /\ ukf = UKF
  /\ meas = NoMeas
  /\ pre = Belief(UKF)
  /\ nCalls = 0
  /\ nBoot = 0
  /\ first \in FirstRaws
  /\ ang = NoAng
  /\ sig = NoSig

FirstLaser ==
  /\ nCalls = 0
  /\ first # NoFirst
  /\ \E timestamp_ \in Timestamps :
       /\ ukf' = ProcessMeasurementBody(ukf,
                    [sensor_type_ |-> "LASER", timestamp_ |-> timestamp_,
                     raw_measurements_ |-> first])
       /\ meas' = [sensor_type_ |-> "LASER", timestamp_ |-> timestamp_]
  /\ pre' = Belief(ukf)
  /\ nCalls' = nCalls + 1
  /\ nBoot' = IF ukf.is_initialized_ THEN nBoot ELSE nBoot + 1
  /\ UNCHANGED <<first, ang, sig>>

SpecLaser == InitFirst /\ [][FirstLaser]_vars

(***************************************************************************)
(* SpecAngle: the angle normalization, applied twice, on the differences   *)
(* k*pi + e.                                                               *)
(***************************************************************************)
AngleInputs ==
  {k * PI + e : k \in (-2 * MaxTurns)..(2 * MaxTurns), e \in (-MaxEps)..MaxEps}

InitAngle ==
  /\ ukf = UKF
  /\ meas = NoMeas
  /\ pre = Belief(UKF)
  /\ nCalls = 0
  /\ nBoot = 0
  /\ first = NoFirst
  /\ ang \in {[d |-> Num(d), n1 |-> Unset, n2 |-> Unset, step |-> 0] : d \in AngleInputs}
  /\ sig = NoSig

Normalize ==
  /\ ang.step < 2
  /\ ang' = IF ang.step = 0
            THEN [ang EXCEPT !.n1 = NormalizeAngleVal(ang.d), !.step = 1]
            ELSE [ang EXCEPT !.n2 = NormalizeAngleVal(ang.n1), !.step = 2]
  /\ UNCHANGED <<ukf, meas, pre, nCalls, nBoot, first, sig>>

SpecAngle == InitAngle /\ [][Normalize]_vars

(***************************************************************************)
(* SpecSigma: the sigma points of a family of augmented means and square   *)
(* roots with entries in the ring.                                         *)
(***************************************************************************)
MeanOf(m) == [j \in 0..(n_aug_ - 1) |-> Irr(m * (j + 1), m)]
RootOf(a, b) ==
  [j \in 0..(n_aug_ - 1) |-> [i \in 0..(n_aug_ - 1) |->
     Irr(a * (j + 1) + b * i, b - a * i)]]

InitSigma ==
  /\ ukf = UKF
  /\ meas = NoMeas
  /\ pre = Belief(UKF)
  /\ nCalls = 0
  /\ nBoot = 0
  /\ first = NoFirst
  /\ ang = NoAng
  /\ sig \in {[x_aug_ |-> MeanOf(m), L |-> RootOf(a, b), Xsig_aug_ |-> <<>>,
               done |-> FALSE] :
               m \in (-MaxMean)..MaxMean, a \in (-MaxL)..MaxL, b \in (-MaxL)..MaxL}

Generate ==
  /\ sig.x_aug_ # <<>>
  /\ ~sig.done
  /\ sig' = [sig EXCEPT !.Xsig_aug_ = SigmaPoints(sig.x_aug_, sig.L), !.done = TRUE]
  /\ UNCHANGED <<ukf, meas, pre, nCalls, nBoot, first, ang>>

SpecSigma == InitSigma /\ [][Generate]_vars

(***************************************************************************)
(* The claims.  nCalls = 1 is the state right after the first call;        *)
(* nCalls >= 2 a state right after a later call, of which `pre` holds the  *)
(* belief it started from, `meas` the measurement and ukf.calls what it    *)
(* invoked, in order.                                                      *)
(***************************************************************************)

\* C1: the first call bootstraps: it invokes neither Prediction nor an update,
\* leaves P_ as it was, sets x_[3] and x_[4] to 0, stores the measurement's
\* timestamp and marks the filter initialized; the mark stays, and the
\* bootstrap branch is taken exactly once, by the first call.
C1_BootstrapOnce ==
  /\ nBoot = (IF nCalls = 0 THEN 0 ELSE 1)
  /\ (nCalls >= 1 => ukf.is_initialized_)
  /\ (nCalls = 1 =>
        /\ ~pre.is_initialized_
        /\ ukf.calls = <<>>
        /\ ukf.P_ = pre.P_
        /\ ukf.x_[3] = Zero
        /\ ukf.x_[4] = Zero
        /\ ukf.previous_timestamp_ = meas.timestamp_)
  /\ (nCalls >= 2 => pre.is_initialized_ /\ ukf.calls # <<>>)

\* a RADAR reading at range 1, bearing 0 has bootstrapped the filter
C1_BootstrappedByRadar ==
  /\ nCalls = 1
  /\ nBoot = 1
  /\ meas.sensor_type_ = "RADAR"
  /\ ukf.is_initialized_
  /\ ukf.x_[0] = One
  /\ ukf.P_ = MatCtor("P_")

\* C2: a call after initialization whose sensor is switched off stores the
\* timestamp and leaves the belief mean x_ and covariance P_ unchanged.
C2_DisabledSensorIsNoOp ==
  (/\ nCalls >= 2
   /\ \/ meas.sensor_type_ = "LASER" /\ ~ukf.use_laser_
      \/ meas.sensor_type_ = "RADAR" /\ ~ukf.use_radar_)
  => /\ ukf.previous_timestamp_ = meas.timestamp_
     /\ ukf.x_ = pre.x_
     /\ ukf.P_ = pre.P_

\* C3: a first LASER measurement with raw values (x, y) leaves the mean
\* (px, py, 0, 0, 0), where px is x when |x| >= 0.001 and 0.001 otherwise, and
\* py likewise of y.
C3_ClampedOrUnchanged ==
  (nCalls = 1 /\ first # NoFirst) =>
     /\ \A m \in 0..1 :
          ukf.x_[m] = Num(IF Abs(first[m]) >= MinMagnitude THEN first[m]
                          ELSE MinMagnitude)
     /\ \A j \in 2..(n_x_ - 1) : ukf.x_[j] = Zero

\* C4: Prediction is never invoked with a negative delta_t.
C4_NoNegativeElapsedTime ==
  \A c \in 1..Len(ukf.calls) :
     ukf.calls[c].fn = "Prediction" =>
        ukf.calls[c].delta_t.k = "num" /\ ukf.calls[c].delta_t.v >= 0

\* C5: a call after initialization in which the augmented covariance cannot be
\* factorized or S_ cannot be inverted leaves x_ and P_ as they were before it.
C5_DegeneracyRejected ==
  (nCalls >= 2 /\ (ukf.P_aug_.k = "nan" \/ ukf.S_.k = "nan"))
  => ukf.x_ = pre.x_ /\ ukf.P_ = pre.P_

C8_DivisorNeverZero ==
  (nCalls >= 2 /\ meas.sensor_type_ = "RADAR") =>
     \A i \in Sigma :
        RDotDivisor(ukf.Xsig_pred_[i][0], ukf.Xsig_pred_[i][1]) # Zero

C10_StatisticBySensor ==
  /\ (nCalls = 1 =>
        ukf.NIS_lidar = pre.NIS_lidar /\ ukf.NIS_radar = pre.NIS_radar)
  /\ ((nCalls >= 2 /\ meas.sensor_type_ = "LASER") =>
        /\ ukf.calls[2].fn = "UpdateLidar"
        /\ ukf.calls[3].nis = "NIS_lidar"
        /\ ukf.NIS_lidar \in {NaN, [k |-> "sym", v |-> nCalls, r |-> 0]}
        /\ ukf.NIS_radar = pre.NIS_radar)
  /\ ((nCalls >= 2 /\ meas.sensor_type_ = "RADAR") =>
        /\ ukf.calls[2].fn = "UpdateRadar"
        /\ ukf.calls[3].nis = "NIS_radar"
        /\ ukf.NIS_radar \in {NaN, [k |-> "sym", v |-> nCalls, r |-> 0]}
        /\ ukf.NIS_lidar = pre.NIS_lidar)

\* a LASER correction has followed a RADAR correction, whose statistic stands
C10_LaserAfterRadar ==
  /\ nCalls = 3
  /\ meas.sensor_type_ = "LASER"
  /\ ukf.NIS_radar = [k |-> "sym", v |-> 2, r |-> 0]
  /\ ukf.NIS_lidar = [k |-> "sym", v |-> 3, r |-> 0]

====
